---- MODULE Spec2Model ----
(***************************************************************************)
(* sigupdate: the ClamAV signature mirror updater                          *)
(* (src/src/github.com/dekobon/clamav-mirror/sigupdate/sigupdate.go).      *)
(*                                                                         *)
(* A run (runSignatureUpdate, from line 88) calls updateFile for the       *)
(* signatures main, daily and bytecode in turn.  updateFile probes the     *)
(* local .cvd with sigtool (findLocalVersion), walks the missing .cdiff    *)
(* files and calls downloadFile, which is modelled step by step: the       *)
(* temporary file and the freshness check, the GET, the body copy, the     *)
(* rename with the change of the modification time.                        *)
(*                                                                         *)
(* What the mirror, the network, sigtool and the filesystem answer is      *)
(* chosen where the code asks.  updateFile reads and writes only the files *)
(* named after its own signature (lines 250-255, 296-297), so the model    *)
(* keeps the files of the signature being updated and draws the files the  *)
(* next signature finds when its updateFile starts.                        *)
(*                                                                         *)
(* Spec is one run.  SpecRerun lets updateFile start a second time on the  *)
(* files a first updateFile left (the program invoked again), and          *)
(* SpecProbe applies findLocalVersion to every sigtool output of the bound.*)
(***************************************************************************)
EXTENDS Integers, Sequences, FiniteSets, TLC

\* ------------------------------------------------------------- bounds
MaxVersion == 2
MaxThreshold == 2
MaxTime == 1
MaxLines == 3

Versions == 0..MaxVersion
Times == 0..MaxTime
\* time.Now() of a download made in this run: later than every earlier stamp
Now == MaxTime + 1
\* a Last-Modified header that is missing or that http.ParseTime rejects
NoLM == -1
Headers == {NoLM} \cup Times

VARIABLES
    versions,            \* the parsed TXT record (SignatureVersions)
    diffCountThreshold,  \* the uint16 command line option
    sigIdx,              \* index into signaturesToUpdate of the loop at line 94
    pc,                  \* where the run stands
    dir,                 \* data directory: the files of the signature being updated
    start,               \* history: dir as this updateFile found it
    oldVersion,          \* updateFile: result of findLocalVersion
    count,               \* updateFile: the loop variable of the diff walk
    err,                 \* updateFile: the value it returned
    runErr,              \* runSignatureUpdate: the value it returned
    probed,              \* updateFile: "no", or how findLocalVersion ended ("ok", "bad")
    dl,                  \* the frame of the downloadFile call in progress or just returned
    calls,               \* history: the downloadFile calls of this updateFile, in order
    rerun,               \* this updateFile runs on the files an earlier run of the program left
    first,               \* history: how the probe of that earlier run ended
    shown,               \* history: the Last-Modified values the mirror has shown for the .cvd
    tool                 \* one sigtool invocation: its output, how the process went, the result

vars == <<versions, diffCountThreshold, sigIdx, pc, dir, start, oldVersion, count,
          err, runErr, probed, dl, calls, rerun, first, shown, tool>>

\* ------------------------------------------------------------- data
\* signaturesToUpdate with daily before main
NamesDailyFirst == <<"daily", "main", "bytecode">>

\* signaturesToUpdate (lines 88-92)
Names == <<"main", "daily", "bytecode">>

Signature(i) ==
    [Name |-> Names[i],
     Version |-> CASE i = 1 -> versions.MainVersion
                   [] i = 2 -> versions.DailyVersion
                   [] OTHER -> versions.ByteCodeVersion]

\* TXT records: every signature takes every target version of the bound
TxtRecords ==
    {[MainVersion |-> m,
      DailyVersion |-> (m + 1) % (MaxVersion + 1),
      ByteCodeVersion |-> (m + 2) % (MaxVersion + 1)] : m \in Versions}

\* a file of the data directory: what it holds and its modification time
NoFile == [data |-> "absent", mtime |-> 0]
OrigFiles == {[data |-> "orig", mtime |-> t] : t \in Times}

exists(f) == f.data # "absent"

\* file names: filePrefix + ".cvd" (line 254), filePrefix-<count>.cdiff (line 296)
Cvd == [ext |-> "cvd", ver |-> 0]
Cdiff(v) == [ext |-> "cdiff", ver |-> v]

Local(d, name) == IF name.ext = "cvd" THEN d.cvd ELSE d.cdiff[name.ver]

Put(d, name, f) ==
    IF name.ext = "cvd" THEN [d EXCEPT !.cvd = f]
    ELSE [d EXCEPT !.cdiff[name.ver] = f]

\* the directory contents a run can find for one signature
Dirs == [cvd : {NoFile} \cup OrigFiles,
         cdiff : [1..MaxVersion -> {NoFile, [data |-> "orig", mtime |-> 0]}]]

currentVersion == Signature(sigIdx).Version

\* http.StatusOK
StatusOK == 200
Statuses == {StatusOK, 404}

\* the frame of one downloadFile call
\*   before        the file at localFilePath when the call started (history)
\*   head          "none": no freshness check; else how checkIfRemoteIsNewer's
\*                 stat and HEAD went ("stat", "head" failed, "ok")
\*   remoteModTime the Last-Modified header of the HEAD response
\*   output        the temporary file: "nil" (none), "empty", "partial", "body"
\*   get           "none": no GET issued; "failed"; "response"
\*   renamed       os.Rename moved the temporary file to localFilePath
NoCall == [filename |-> Cvd, site |-> "none", before |-> NoFile, head |-> "none",
           remoteModTime |-> NoLM, output |-> "nil", get |-> "none",
           header |-> NoLM, lastModified |-> 0, renamed |-> FALSE,
           StatusCode |-> -1, err |-> "none"]

\* ------------------------------------------------------------- findLocalVersion
\* math.MinInt64, the "no version seen" value of line 364: the least token
MinInt64 == 0 - (MaxVersion + 2)

\* sigtool's stdout, line by line:
\*   version  "Version: <tok>" with tok a base-10 int64, math.MinInt64 among them
\*   badtok   "Version: <tok>" with tok empty or no integer
\*   nosep    begins with "Version:" with no "Version: " in it ("Version:5")
\*   ok       begins with "Verification OK"
\*   other    anything else
Lines == {[kind |-> "version", tok |-> t] : t \in {MinInt64} \cup (-1..MaxVersion)}
         \cup {[kind |-> k, tok |-> 0] : k \in {"badtok", "nosep", "ok", "other"}}

ToolOutputs == UNION {[1..n -> Lines] : n \in 0..MaxLines}

\* how the sigtool process goes: it fails to start, the scanner fails, it exits
\* with an error, or none of these
Procs == {"ok", "start", "scan", "wait"}

errVersion == -1

\* the scan loop, lines 367-387, from line k on
RECURSIVE ScanLines(_, _, _, _)
ScanLines(out, k, version, validated) ==
    IF k > Len(out) THEN [exit |-> "eof", version |-> version, validated |-> validated]
    ELSE LET line == out[k] IN
         CASE line.kind = "nosep" ->
                  \* s has one element: s[1] is out of range
                  [exit |-> "panic", version |-> version, validated |-> validated]
           [] line.kind = "badtok" ->
                  [exit |-> "parse", version |-> version, validated |-> validated]
           [] line.kind = "version" -> ScanLines(out, k + 1, line.tok, validated)
           [] line.kind = "ok" -> ScanLines(out, k + 1, version, TRUE)
           [] OTHER -> ScanLines(out, k + 1, version, validated)

\* lines 346-406: the result, or a panic of the process
Failed == [version |-> errVersion, err |-> TRUE, panic |-> FALSE]

findLocalVersion(out, proc) ==
    IF proc = "start" THEN Failed
    ELSE LET s == ScanLines(out, 1, MinInt64, FALSE) IN
         IF s.exit = "panic" THEN [Failed EXCEPT !.panic = TRUE]
         ELSE IF s.exit = "parse" THEN Failed
         ELSE IF ~s.validated THEN Failed
         ELSE IF s.version = MinInt64 THEN Failed
         ELSE IF proc = "scan" THEN Failed
         ELSE IF proc = "wait" THEN Failed
         ELSE [version |-> s.version, err |-> FALSE, panic |-> FALSE]

\* no sigtool invocation under study
NoTool == [out |-> <<>>, proc |-> "ok", ret |-> <<>>]

\* what findLocalVersion can hand to updateFile, over every sigtool output and
\* every way the process can go
ProbeResults == {findLocalVersion(out, proc) : out \in ToolOutputs, proc \in Procs}

\* ------------------------------------------------------------- downloadFile
\* what stat and the HEAD request answer
CheckEnvs == [fail : {"none", "stat", "head"}, LastModified : Headers]
\* what the GET request answers
GetEnvs == [fail : BOOLEAN, StatusCode : Statuses, LastModified : Headers]

\* checkIfRemoteIsNewer answering "not newer" also when the two times are equal
checkIfRemoteIsNewerOrSame(localFile, env) ==
    IF env.fail = "stat" THEN [newer |-> TRUE, err |-> TRUE]
    ELSE IF env.fail = "head" THEN [newer |-> TRUE, err |-> TRUE]
    ELSE IF env.LastModified = NoLM THEN [newer |-> TRUE, err |-> TRUE]
    ELSE IF localFile.mtime >= env.LastModified THEN [newer |-> FALSE, err |-> FALSE]
    ELSE [newer |-> TRUE, err |-> FALSE]

\* checkIfRemoteIsNewer, lines 484-518: (newer, err)
checkIfRemoteIsNewer(localFile, env) ==
    IF env.fail = "stat" THEN [newer |-> TRUE, err |-> TRUE]
    ELSE IF env.fail = "head" THEN [newer |-> TRUE, err |-> TRUE]
    ELSE IF env.LastModified = NoLM THEN [newer |-> TRUE, err |-> TRUE]
    ELSE IF localFile.mtime > env.LastModified THEN [newer |-> FALSE, err |-> FALSE]
    ELSE [newer |-> TRUE, err |-> FALSE]

\* what a returned call did, for the history
Outcome(frame) ==
    IF frame.err = "err" THEN "error"
    ELSE IF frame.get = "none" THEN "skipped"
    ELSE IF frame.renamed THEN "replaced"
    ELSE "lost"

\* downloadFile returns (status, e) to the place that called it
Finish(frame, status, e) ==
    LET f == [frame EXCEPT !.StatusCode = status, !.err = e] IN
    /\ dl' = f
    /\ pc' = f.site
    /\ calls' = [calls EXCEPT ![Len(calls)].result = Outcome(f)]

\* lines 431-438: with no temporary file, output.Name() dereferences nil
Proceed(frame, tempOK) ==
    /\ dl' = frame
    /\ pc' = IF tempOK THEN "get" ELSE "panic"
    /\ UNCHANGED calls

\* the mirror shows Last-Modified h for the .cvd: one value as long as it always
\* showed the same, every value once it has shown two
Show(name, h) ==
    IF name # Cvd THEN shown
    ELSE IF shown \subseteq {h} THEN {h}
    ELSE Headers

\* lines 416-438: ioutil.TempFile, then the freshness check of an existing file
DlBegin ==
    /\ pc = "downloadFile"
    /\ \E tempOK \in BOOLEAN, env \in CheckEnvs :
         LET local == Local(dir, dl.filename)
             f0 == [dl EXCEPT !.output = IF tempOK THEN "empty" ELSE "nil"]
             chk == checkIfRemoteIsNewer(local, env)
             f1 == [f0 EXCEPT !.head = IF env.fail = "none" THEN "ok" ELSE env.fail,
                              !.remoteModTime = IF env.fail = "none"
                                                THEN env.LastModified ELSE NoLM]
         IN /\ IF exists(local)
               THEN IF chk.err THEN Finish(f1, -1, "err")
                    ELSE IF chk.newer THEN Finish(f1, -1, "nil")
                    ELSE Proceed(f1, tempOK)
               ELSE Proceed(f0, tempOK)
            /\ shown' = IF exists(local) /\ env.fail = "none"
                        THEN Show(dl.filename, env.LastModified) ELSE shown
    /\ UNCHANGED <<versions, diffCountThreshold, rerun, first, tool, sigIdx, start, dir, oldVersion, count, err,
                   runErr, probed>>

\* lines 442-462: http.Get, the status check, the Last-Modified of the response
DlGet ==
    /\ pc = "get"
    /\ \E g \in GetEnvs :
         IF g.fail THEN Finish([dl EXCEPT !.get = "failed"], -1, "err") /\ UNCHANGED shown
         ELSE IF g.StatusCode # StatusOK
              THEN /\ Finish([dl EXCEPT !.get = "response"], g.StatusCode, "err")
                   /\ UNCHANGED shown
              ELSE /\ dl' = [dl EXCEPT !.get = "response",
                                       !.StatusCode = g.StatusCode,
                                       !.header = g.LastModified,
                                       !.lastModified = IF g.LastModified = NoLM
                                                        THEN Now ELSE g.LastModified]
                   /\ shown' = Show(dl.filename, g.LastModified)
                   /\ pc' = "copy"
                   /\ UNCHANGED calls
    /\ UNCHANGED <<versions, diffCountThreshold, rerun, first, tool, sigIdx, start, dir, oldVersion, count, err,
                   runErr, probed>>

\* DlCopy writing the body straight to localFilePath instead of the temporary file
DlCopyInPlace ==
    /\ pc = "copy"
    /\ \E copied \in BOOLEAN :
         IF copied
         THEN /\ dl' = [dl EXCEPT !.output = "body"]
              /\ dir' = Put(dir, dl.filename, [data |-> "body", mtime |-> Now])
              /\ pc' = "rename"
              /\ UNCHANGED calls
         ELSE /\ dir' = Put(dir, dl.filename, [data |-> "partial", mtime |-> Now])
              /\ Finish([dl EXCEPT !.output = "partial"], dl.StatusCode, "err")
    /\ UNCHANGED <<versions, diffCountThreshold, rerun, first, shown, tool, sigIdx, start, oldVersion, count, err,
                   runErr, probed>>

\* lines 464-470: io.Copy of the body into the temporary file
DlCopy ==
    /\ pc = "copy"
    /\ \E copied \in BOOLEAN :
         IF copied
         THEN /\ dl' = [dl EXCEPT !.output = "body"]
              /\ pc' = "rename"
              /\ UNCHANGED calls
         ELSE Finish([dl EXCEPT !.output = "partial"], dl.StatusCode, "err")
    /\ UNCHANGED <<versions, diffCountThreshold, rerun, first, shown, tool, sigIdx, start, dir, oldVersion, count, err,
                   runErr, probed>>

\* lines 472-479: os.Rename and os.Chtimes, both unchecked, then return
DlRename ==
    /\ pc = "rename"
    /\ \E renamed \in BOOLEAN :
         LET d1 == IF renamed
                   THEN Put(dir, dl.filename, [data |-> dl.output, mtime |-> Now])
                   ELSE dir
             f1 == Local(d1, dl.filename)
             d2 == IF exists(f1)
                   THEN Put(d1, dl.filename, [f1 EXCEPT !.mtime = dl.lastModified])
                   ELSE d1
         IN /\ dir' = d2
            /\ Finish([dl EXCEPT !.renamed = renamed,
                                 !.output = IF renamed THEN "nil" ELSE dl.output],
                      dl.StatusCode, "nil")
    /\ UNCHANGED <<versions, diffCountThreshold, rerun, first, shown, tool, sigIdx, start, oldVersion, count, err,
                   runErr, probed>>

\* ------------------------------------------------------------- updateFile
\* the places of updateFile a downloadFile call returns to: lines 261, 280, 308,
\* 318 and 334
Sites == {"absent", "reprobe", "diff", "fallback", "refresh"}

\* a call of downloadFile(filename) made at `site` of updateFile
Call(name, site) ==
    /\ dl' = [NoCall EXCEPT !.filename = name, !.site = site,
                            !.before = Local(dir, name)]
    /\ calls' = Append(calls, [filename |-> name, site |-> site, result |-> "pending"])
    /\ pc' = "downloadFile"

\* updateFile returns e
Return(e) ==
    /\ err' = e
    /\ pc' = "updateFileRet"

\* line 330 with >= for >
thresholdReached(cur, old, threshold) == cur - old >= threshold

\* line 330 comparing against one more than the threshold
thresholdExceededByTwo(cur, old, threshold) == cur - old > threshold + 1

\* line 330
thresholdExceeded(cur, old, threshold) == cur - old > threshold

\* lines 257-262: no local copy
UpdateFileAbsent ==
    /\ pc = "updateFile"
    /\ ~exists(dir.cvd)
    /\ Call(Cvd, "absent")
    /\ UNCHANGED <<versions, diffCountThreshold, rerun, first, shown, tool, sigIdx, start, dir, oldVersion, count, err,
                   runErr, probed>>

\* lines 275-291: the probe of the local copy
UpdateFileProbe ==
    /\ pc = "updateFile"
    /\ exists(dir.cvd)
    /\ \E r \in ProbeResults :
         IF r.panic
         THEN /\ pc' = "panic"
              /\ UNCHANGED <<oldVersion, count, probed, dl, calls>>
         ELSE IF r.err \/ r.version < 0
         THEN /\ oldVersion' = r.version
              /\ probed' = "bad"
              /\ Call(Cvd, "reprobe")
              /\ UNCHANGED count
         ELSE /\ oldVersion' = r.version
              /\ probed' = "ok"
              /\ count' = r.version + 1
              /\ pc' = "walk"
              /\ UNCHANGED <<dl, calls>>
    /\ UNCHANGED <<versions, diffCountThreshold, rerun, first, shown, tool, sigIdx, start, dir, err, runErr>>

\* lines 295-306: the diff of this version is there already
WalkSkip ==
    /\ pc = "walk"
    /\ count <= currentVersion
    /\ exists(dir.cdiff[count])
    /\ count' = count + 1
    /\ UNCHANGED <<versions, diffCountThreshold, rerun, first, shown, tool, sigIdx, start, pc, dir, oldVersion, err,
                   runErr, probed, dl, calls>>

\* WalkDownload without the test of line 300: a diff is downloaded whether or
\* not it is there
WalkDownloadPresent ==
    /\ pc = "walk"
    /\ count <= currentVersion
    /\ Call(Cdiff(count), "diff")
    /\ UNCHANGED <<versions, diffCountThreshold, rerun, first, shown, tool, sigIdx, start, dir,
                   oldVersion, count, err, runErr, probed>>

\* lines 295-308: download the diff of this version
WalkDownload ==
    /\ pc = "walk"
    /\ count <= currentVersion
    /\ ~exists(dir.cdiff[count])
    /\ Call(Cdiff(count), "diff")
    /\ UNCHANGED <<versions, diffCountThreshold, rerun, first, shown, tool, sigIdx, start, dir, oldVersion, count, err,
                   runErr, probed>>

\* line 295: the loop condition fails
WalkEnd ==
    /\ pc = "walk"
    /\ count > currentVersion
    /\ pc' = "thresholdCheck"
    /\ UNCHANGED <<versions, diffCountThreshold, rerun, first, shown, tool, sigIdx, start, dir, oldVersion, count, err,
                   runErr, probed, dl, calls>>

\* AfterDiff that drops the error of a diff download: no fallback
AfterDiffNoFallback ==
    /\ pc = "diff"
    /\ count' = count + 1
    /\ pc' = "walk"
    /\ dl' = NoCall
    /\ UNCHANGED <<versions, diffCountThreshold, rerun, first, shown, tool, sigIdx, start, dir, oldVersion, err,
                   runErr, probed, calls>>

\* AfterDiff returning the error of the diff download instead of falling back
AfterDiffReturnsErr ==
    /\ pc = "diff"
    /\ IF dl.err = "err"
       THEN Return("err") /\ UNCHANGED <<count, dl, calls>>
       ELSE /\ count' = count + 1
            /\ pc' = "walk"
            /\ dl' = NoCall
            /\ UNCHANGED <<calls, err>>
    /\ UNCHANGED <<versions, diffCountThreshold, rerun, first, shown, tool, sigIdx, start, dir,
                   oldVersion, runErr, probed>>

\* lines 308-318, 325: the diff download returned
AfterDiff ==
    /\ pc = "diff"
    /\ IF dl.err = "err"
       THEN Call(Cvd, "fallback") /\ UNCHANGED count
       ELSE /\ count' = count + 1
            /\ pc' = "walk"
            /\ dl' = NoCall
            /\ UNCHANGED calls
    /\ UNCHANGED <<versions, diffCountThreshold, rerun, first, shown, tool, sigIdx, start, dir, oldVersion, err,
                   runErr, probed>>

\* AfterFallback without the break of line 323: the walk goes on after a fallback
AfterFallbackNoBreak ==
    /\ pc = "fallback"
    /\ IF dl.err = "err"
       THEN Return("err") /\ UNCHANGED <<dl, count>>
       ELSE pc' = "walk" /\ count' = count + 1 /\ dl' = NoCall /\ UNCHANGED err
    /\ UNCHANGED <<versions, diffCountThreshold, rerun, first, shown, tool, sigIdx, start, dir, oldVersion,
                   runErr, probed, calls>>

\* lines 318-323: the fallback download returned
AfterFallback ==
    /\ pc = "fallback"
    /\ IF dl.err = "err"
       THEN Return("err") /\ UNCHANGED dl
       ELSE pc' = "thresholdCheck" /\ dl' = NoCall /\ UNCHANGED err
    /\ UNCHANGED <<versions, diffCountThreshold, rerun, first, shown, tool, sigIdx, start, dir, oldVersion, count,
                   runErr, probed, calls>>

\* lines 327-334, 341
ThresholdCheck ==
    /\ pc = "thresholdCheck"
    /\ IF thresholdExceeded(currentVersion, oldVersion, diffCountThreshold)
       THEN Call(Cvd, "refresh") /\ UNCHANGED err
       ELSE Return("nil") /\ UNCHANGED <<dl, calls>>
    /\ UNCHANGED <<versions, diffCountThreshold, rerun, first, shown, tool, sigIdx, start, dir, oldVersion, count,
                   runErr, probed>>

\* AfterFull without the return of line 267: after the first download updateFile
\* falls through to the probe
AfterFullFallThrough ==
    /\ pc \in {"absent", "reprobe", "refresh"}
    /\ IF pc = "absent" /\ dl.err = "nil"
       THEN pc' = "updateFile" /\ UNCHANGED err
       ELSE Return(dl.err)
    /\ UNCHANGED <<versions, diffCountThreshold, rerun, first, shown, tool, sigIdx, start, dir, oldVersion, count,
                   runErr, probed, dl, calls>>

\* lines 263-267, 282-286, 336-341: return what the full download returned
AfterFull ==
    /\ pc \in {"absent", "reprobe", "refresh"}
    /\ Return(dl.err)
    /\ UNCHANGED <<versions, diffCountThreshold, rerun, first, shown, tool, sigIdx, start, dir, oldVersion, count,
                   runErr, probed, dl, calls>>

\* ------------------------------------------------------------- runSignatureUpdate
\* no earlier run
NoProbe == [probed |-> "no", oldVersion |-> 0]

\* the program is started again after an updateFile that returned nil, with the
\* same TXT record and threshold: updateFile starts over on the files the
\* earlier one left.  The second start is taken where the diff of every version
\* up to the target is in the directory, but for the versions the primary file
\* already had when sigtool read it and it was not replaced since.
Rerun ==
    /\ pc = "updateFileRet"
    /\ ~rerun
    /\ err = "nil"
    /\ \A v \in 1..currentVersion :
          \/ exists(dir.cdiff[v])
          \/ dir.cvd.data = "orig" /\ probed = "ok" /\ v <= oldVersion
    /\ rerun' = TRUE
    /\ first' = [probed |-> probed, oldVersion |-> oldVersion]
    /\ start' = dir
    /\ pc' = "updateFile"
    /\ oldVersion' = 0
    /\ count' = 0
    /\ err' = "none"
    /\ probed' = "no"
    /\ dl' = NoCall
    /\ calls' = <<>>
    /\ UNCHANGED <<versions, diffCountThreshold, sigIdx, dir, runErr, shown, tool>>

\* RunNext without the test of line 98: the loop goes on after an error
RunNextIgnoringErr ==
    /\ pc = "updateFileRet"
    /\ sigIdx < Len(Names)
    /\ sigIdx' = sigIdx + 1
    /\ dir' \in Dirs
    /\ start' = dir'
    /\ pc' = "updateFile"
    /\ oldVersion' = 0
    /\ count' = 0
    /\ err' = "none"
    /\ probed' = "no"
    /\ dl' = NoCall
    /\ calls' = <<>>
    /\ rerun' = FALSE
    /\ first' = NoProbe
    /\ shown' = {}
    /\ UNCHANGED <<versions, diffCountThreshold, tool, runErr>>

\* lines 94-101: updateFile returned nil, the loop goes on to the next signature
RunNext ==
    /\ pc = "updateFileRet"
    /\ err = "nil"
    /\ sigIdx < Len(Names)
    /\ sigIdx' = sigIdx + 1
    /\ dir' \in Dirs
    /\ start' = dir'
    /\ pc' = "updateFile"
    /\ oldVersion' = 0
    /\ count' = 0
    /\ err' = "none"
    /\ probed' = "no"
    /\ dl' = NoCall
    /\ calls' = <<>>
    /\ rerun' = FALSE
    /\ first' = NoProbe
    /\ shown' = {}
    /\ UNCHANGED <<versions, diffCountThreshold, tool, runErr>>

\* lines 98-103: the first error, or nil after the last signature
RunReturn ==
    /\ pc = "updateFileRet"
    /\ err = "err" \/ sigIdx = Len(Names)
    /\ runErr' = err
    /\ pc' = "done"
    /\ UNCHANGED <<versions, diffCountThreshold, rerun, first, shown, tool, sigIdx, start, dir, oldVersion, count, err,
                   probed, dl, calls>>

Init ==
    /\ versions \in TxtRecords
    /\ diffCountThreshold \in 0..MaxThreshold
    /\ sigIdx = 1
    /\ pc = "updateFile"
    /\ dir \in Dirs
    /\ start = dir
    /\ oldVersion = 0
    /\ count = 0
    /\ err = "none"
    /\ runErr = "none"
    /\ probed = "no"
    /\ dl = NoCall
    /\ calls = <<>>
    /\ rerun = FALSE
    /\ first = NoProbe
    /\ shown = {}
    /\ tool = NoTool

Next ==
    \/ UpdateFileAbsent
    \/ UpdateFileProbe
    \/ WalkSkip
    \/ WalkDownload
    \/ WalkEnd
    \/ AfterDiff
    \/ AfterFallback
    \/ ThresholdCheck
    \/ AfterFull
    \/ DlBegin
    \/ DlGet
    \/ DlCopy
    \/ DlRename
    \/ RunNext
    \/ RunReturn

Spec == Init /\ [][Next]_vars

\* findLocalVersion on its own: one sigtool invocation, over every output and
\* every way the process can go
InitProbe ==
    /\ versions = [MainVersion |-> 0, DailyVersion |-> 0, ByteCodeVersion |-> 0]
    /\ diffCountThreshold = 0
    /\ sigIdx = 1
    /\ pc = "findLocalVersion"
    /\ dir = [cvd |-> [data |-> "orig", mtime |-> 0], cdiff |-> [v \in 1..MaxVersion |-> NoFile]]
    /\ start = dir
    /\ oldVersion = 0
    /\ count = 0
    /\ err = "none"
    /\ runErr = "none"
    /\ probed = "no"
    /\ dl = NoCall
    /\ calls = <<>>
    /\ rerun = FALSE
    /\ first = NoProbe
    /\ shown = {}
    /\ tool \in [out : ToolOutputs, proc : Procs, ret : {<<>>}]

\* lines 346-406: the call returns its result, or the process panics
Probe ==
    /\ pc = "findLocalVersion"
    /\ LET r == findLocalVersion(tool.out, tool.proc) IN
         /\ tool' = [tool EXCEPT !.ret = <<r>>]
         /\ pc' = IF r.panic THEN "panic" ELSE "findLocalVersionRet"
    /\ UNCHANGED <<versions, diffCountThreshold, sigIdx, dir, start, oldVersion, count,
                   err, runErr, probed, dl, calls, rerun, first, shown>>

NextProbe == Probe

SpecProbe == InitProbe /\ [][NextProbe]_vars

\* two invocations of the program, one after the other, on the data directory
\* of the first signature
NextRerun ==
    \/ UpdateFileAbsent
    \/ UpdateFileProbe
    \/ WalkSkip
    \/ WalkDownload
    \/ WalkEnd
    \/ AfterDiff
    \/ AfterFallback
    \/ ThresholdCheck
    \/ AfterFull
    \/ DlBegin
    \/ DlGet
    \/ DlCopy
    \/ DlRename
    \/ Rerun
    \/ RunReturn

SpecRerun == Init /\ [][NextRerun]_vars

\* ------------------------------------------------------------- properties
\* updateFile has returned
Returned == pc = "updateFileRet"
Success == Returned /\ err = "nil"

\* the versions the diff walk covers, and the indices of calls of each kind
Chain == (oldVersion + 1)..currentVersion
FullCalls == {k \in DOMAIN calls : calls[k].filename = Cvd}
DiffCalls == {k \in DOMAIN calls : calls[k].filename.ext = "cdiff"}
FailedDiffs == {k \in DiffCalls : calls[k].result = "error"}
Exceeded == currentVersion - oldVersion > diffCountThreshold

\* the primary file is the one found at the start and has the target version
CvdAtTarget == dir.cvd.data = "orig" /\ probed = "ok" /\ oldVersion = currentVersion
\* a full-download call of this updateFile moved a new primary file into place
CvdReplaced == \E k \in FullCalls : calls[k].result = "replaced"

\* version v of the chain has its diff file, or a call for it returned no error
DiffCovered(v) ==
    \/ exists(dir.cdiff[v])
    \/ \E k \in DiffCalls : calls[k].filename.ver = v /\ calls[k].result # "error"

\* the case of C6: returned after a good probe below the target, none of the
\* chain's diffs present at the start, no diff download failed
AllDiffsFetched ==
    /\ Returned
    /\ probed = "ok"
    /\ oldVersion < currentVersion
    /\ \A v \in Chain : ~exists(start.cdiff[v])
    /\ FailedDiffs = {}

\* the last call was the threshold download of line 334
RefreshCalled == calls # <<>> /\ calls[Len(calls)].site = "refresh"

\* updateFile returned the error of a failed fallback download (line 321)
FallbackFailed ==
    /\ calls # <<>>
    /\ calls[Len(calls)].site = "fallback"
    /\ calls[Len(calls)].result = "error"
    /\ err = "err"

\* a file that is absent or complete
Whole(f) == f.data \in {"absent", "orig", "body"}

\* the lines of a sigtool output that begin with the version label
LabelLines(out) == {k \in DOMAIN out : out[k].kind \in {"version", "badtok", "nosep"}}
\* the output has the marker line and a label line, and the token of every
\* label line parses
WellFormed(out) ==
    /\ \E k \in DOMAIN out : out[k].kind = "ok"
    /\ LabelLines(out) # {}
    /\ \A k \in LabelLines(out) : out[k].kind = "version"
LastLabelLine(out) == CHOOSE k \in LabelLines(out) : \A j \in LabelLines(out) : j <= k

\* the case of C11: a second updateFile after one that returned nil, the probe
\* succeeds and reports for a primary file the first one left alone what it
\* reported then, every diff of the walk is there at the start, and the mirror
\* has shown one Last-Modified for the primary file over both
SecondRunNothingNew ==
    /\ rerun
    /\ probed = "ok"
    /\ start.cvd.data = "orig" => first.probed = "ok" /\ first.oldVersion = oldVersion
    /\ \A v \in Chain : exists(start.cdiff[v])
    /\ Cardinality(shown) <= 1

\* C1 (as stated): when a diff download of the walk failed, exactly one
\* full-download call follows it in that updateFile and no diff is attempted
\* after it.
C1_ExactlyOneFullCall ==
    Returned =>
        \A k \in FailedDiffs :
            /\ Cardinality({j \in FullCalls : j > k}) = 1
            /\ \A j \in DiffCalls : j <= k

\* C1 (amended): after a failed diff download no further diff is attempted; the
\* next call is the fallback full download, and once updateFile has returned it
\* is followed by one more full-download call exactly when the fallback
\* returned no error and the version difference exceeds the threshold.
C1_FallbackThenRefresh ==
    \A k \in FailedDiffs :
        /\ \A j \in DiffCalls : j <= k
        /\ Returned =>
              /\ k + 1 \in FullCalls
              /\ calls[k + 1].site = "fallback"
              /\ Len(calls) = IF calls[k + 1].result # "error" /\ Exceeded
                              THEN k + 2 ELSE k + 1

\* C1 witness: a diff failed with a later version still to walk, the fallback
\* was made and the threshold download followed it.
C1_Witness ==
    /\ Returned
    /\ \E k \in FailedDiffs :
          /\ calls[k].filename.ver < currentVersion
          /\ Len(calls) = k + 2
          /\ calls[k + 2].site = "refresh"

\* C2 (as stated): on an existing localPath whose HEAD response carries a
\* parsable Last-Modified, downloadFile skips (no GET, file unchanged, no
\* error) exactly when the local mtime is strictly after it, and issues the GET
\* when the local mtime is equal to or before it.
C2_SkipsIffLocalNewer ==
    (/\ pc \in Sites
     /\ exists(dl.before)
     /\ dl.head = "ok"
     /\ dl.remoteModTime # NoLM)
    => IF dl.before.mtime > dl.remoteModTime
       THEN dl.get = "none" /\ dl.err = "nil" /\ Local(dir, dl.filename) = dl.before
       ELSE dl.get # "none"

C4_NoPartialChain ==
    (Success /\ probed = "ok")
    => (\A v \in Chain : exists(dir.cdiff[v])) \/ CvdReplaced

\* C5: started with no primary file, updateFile makes exactly one download
\* call, for the primary file, and neither probes nor walks nor checks the
\* threshold.
C5_AbsentOneFullCall ==
    ~exists(start.cvd) =>
        /\ probed = "no"
        /\ pc \notin {"walk", "thresholdCheck"}
        /\ DiffCalls = {}
        /\ Len(calls) <= 1
        /\ pc # "updateFile" => Len(calls) = 1 /\ calls[1].site = "absent"

\* C5 witness: updateFile returned after the one download of an absent file
\* with a target version and threshold that would walk otherwise.
C5_Witness ==
    /\ Returned
    /\ ~exists(start.cvd)
    /\ currentVersion > diffCountThreshold
    /\ calls[1].result = "replaced"

\* C6: after a successful probe below the target, with none of the chain's
\* diffs present and no diff download failing, the calls of updateFile are the
\* diff downloads for localVersion+1 .. targetVersion, each once and in
\* increasing order, followed by a full-download call only when the difference
\* is above the threshold (none when it equals the threshold).
C6_DiffsInOrder ==
    AllDiffsFetched =>
        LET n == currentVersion - oldVersion IN
        /\ Len(calls) >= n
        /\ \A k \in 1..n : calls[k].filename = Cdiff(oldVersion + k)
        /\ \A k \in DOMAIN calls : k > n => calls[k].filename = Cvd
        /\ currentVersion - oldVersion <= diffCountThreshold => Len(calls) = n
        /\ Len(calls) <= n + 1

\* C6 witness: two diffs fetched in order with the difference equal to the
\* threshold, and no full download.
C6_Witness ==
    /\ AllDiffsFetched
    /\ currentVersion - oldVersion = 2
    /\ diffCountThreshold = 2
    /\ Len(calls) = 2
    /\ calls[1].result = "replaced"
    /\ calls[2].result = "replaced"

C8_BadProbeAsAbsent ==
    (Returned /\ probed = "bad") =>
        /\ DiffCalls = {}
        /\ err = "nil" => dir.cvd.data = "body"

\* C9 (as stated): on an existing localPath, when the Last-Modified of the HEAD
\* response is missing or unparsable, downloadFile goes on to the GET and
\* returns no error from the freshness check.
C9_UnparsableProceeds ==
    (/\ pc \in Sites
     /\ exists(dl.before)
     /\ dl.head = "ok"
     /\ dl.remoteModTime = NoLM)
    => dl.get # "none"

\* C10: when downloadFile returns an error the file at localFilePath is the
\* one the call found (or still absent), and no file of the data directory is
\* ever empty or partly written.
C10_ErrorLeavesLocalPath ==
    /\ (pc \in Sites /\ dl.err = "err") => Local(dir, dl.filename) = dl.before
    /\ pc \in {"downloadFile", "get", "copy", "rename"} => Local(dir, dl.filename) = dl.before
    /\ Whole(dir.cvd)
    /\ \A v \in DOMAIN dir.cdiff : Whole(dir.cdiff[v])

\* C10 witness: the body copy failed part way over an existing primary file
C10_Witness ==
    /\ pc \in Sites
    /\ dl.err = "err"
    /\ dl.output = "partial"
    /\ dl.StatusCode = StatusOK
    /\ exists(dl.before)

C12_FailFast ==
    [][err = "err" =>
          /\ pc' = "done"
          /\ runErr' = "err"
          /\ UNCHANGED <<versions, diffCountThreshold, sigIdx, dir, start, oldVersion,
                         count, err, probed, dl, calls>>]_vars

\* C12 witness: the run returned the error of a signature that is not the last
\* of the list.
C12_Witness ==
    /\ pc = "done"
    /\ runErr = "err"
    /\ err = "err"
    /\ sigIdx < Len(Names)

\* C13: when the probe succeeds and reports the target version, updateFile makes
\* no download call, neither for a diff nor for the primary file, and returns
\* nil.
C13_UpToDateNoDownload ==
    (probed = "ok" /\ oldVersion = currentVersion) =>
        /\ calls = <<>>
        /\ pc \in {"walk", "thresholdCheck", "updateFileRet", "done"}
        /\ pc \in {"updateFileRet", "done"} => err = "nil"
        /\ dir = start

\* C13 witness: updateFile returned for a primary file at the target version,
\* with threshold 0 and a diff of a lower version missing.
C13_Witness ==
    /\ Returned
    /\ probed = "ok"
    /\ oldVersion = currentVersion
    /\ currentVersion > 0
    /\ diffCountThreshold = 0
    /\ ~exists(dir.cdiff[currentVersion])
    /\ err = "nil"

\* C14: updateFile returns an error exactly when a download call for the
\* primary file returned an error; a failed diff download alone does not make
\* it return an error; a failed fallback download is the last call and no
\* threshold check follows it.
C14_ErrIffFullCallFailed ==
    /\ Returned =>
          (err = "err" <=> \E k \in FullCalls : calls[k].result = "error")
    /\ \A k \in DOMAIN calls :
          (calls[k].site = "fallback" /\ calls[k].result = "error") =>
              /\ k = Len(calls)
              /\ pc \in {"fallback", "updateFileRet", "done"}

\* C14 witness: a diff download failed, the fallback download failed too, and
\* updateFile returned the error although the difference is above the
\* threshold.
C14_Witness ==
    /\ Returned
    /\ FailedDiffs # {}
    /\ FallbackFailed
    /\ Exceeded

\* C15: no download call is made for a diff that was present when the walk
\* started; the walk goes on past it, so that with no diff download failing
\* every version of the walk was either present or called for; and with every
\* diff of the walk present and the difference not above the threshold
\* updateFile makes no download call at all.
C15_PresentDiffsSkipped ==
    probed = "ok" =>
        /\ \A k \in DiffCalls : ~exists(start.cdiff[calls[k].filename.ver])
        /\ (Returned /\ FailedDiffs = {}) =>
              \A v \in Chain :
                  exists(start.cdiff[v]) # (\E k \in DiffCalls : calls[k].filename.ver = v)
        /\ ((\A v \in Chain : exists(start.cdiff[v])) /\ ~Exceeded) =>
              /\ calls = <<>>
              /\ dir = start
              /\ Returned => err = "nil"

\* C15 witness: the first diff of the walk was present and skipped, the second
\* was missing and is the only call of updateFile.
C15_Witness ==
    /\ Returned
    /\ probed = "ok"
    /\ currentVersion = oldVersion + 2
    /\ exists(start.cdiff[oldVersion + 1])
    /\ ~exists(start.cdiff[oldVersion + 2])
    /\ Len(calls) = 1
    /\ calls[1].filename = Cdiff(oldVersion + 2)
    /\ calls[1].result = "replaced"

\* C16: the run takes the signatures one after another in the order main, daily,
\* bytecode: the loop moves to the next signature only from the return of the
\* updateFile of the one before, the probe of a signature is made before any of
\* its download calls, and a download call is made only when every earlier call
\* of that updateFile has returned.
C16_OneAfterAnother ==
    /\ [](Signature(sigIdx).Name =
             (IF sigIdx = 1 THEN "main" ELSE IF sigIdx = 2 THEN "daily" ELSE "bytecode"))
    /\ [](\A k \in DOMAIN calls : calls[k].result = "pending" => k = Len(calls))
    /\ [][/\ sigIdx' # sigIdx =>
                /\ sigIdx' = sigIdx + 1
                /\ pc = "updateFileRet"
                /\ pc' = "updateFile"
                /\ calls' = <<>>
                /\ probed' = "no"
          /\ probed' \notin {probed, "no"} => pc = "updateFile" /\ calls = <<>>
          /\ Len(calls') > Len(calls) =>
                /\ \A k \in DOMAIN calls : calls[k].result # "pending"
                /\ pc \in {"updateFile", "walk", "diff", "thresholdCheck"}]_vars

\* C16 witness: in the third signature the second diff download is under way
\* after the first one has returned.
C16_Witness ==
    /\ sigIdx = 3
    /\ pc = "rename"
    /\ Len(calls) = 2
    /\ calls[1].filename = Cdiff(oldVersion + 1)
    /\ calls[1].result = "replaced"
    /\ calls[2].filename = Cdiff(oldVersion + 2)
    /\ calls[2].result = "pending"

\* C17 (as stated): with the sigtool process itself running and ending without
\* error, findLocalVersion returns (v, nil) exactly when the output has the
\* marker line and at least one line beginning with the version label, the
\* token of every such line parses as an int64, and v is the token of the last
\* of them; in every other case it returns an error with the error version and
\* the process goes on.
C17_VersionIffWellFormed ==
    (tool.ret # <<>> /\ tool.proc = "ok") =>
        LET r == tool.ret[1] IN
        /\ ~r.panic
        /\ ~r.err <=> WellFormed(tool.out)
        /\ ~r.err => r.version = tool.out[LastLabelLine(tool.out)].tok
        /\ r.err => r.version = errVersion

\* C18 (as stated): when the GET response has a status other than 200,
\* downloadFile returns an error together with that status, the file at
\* localFilePath is as the call found it, and no temporary file of the call is
\* left.
C18_Non200DiscardsTemp ==
    (pc \in Sites /\ dl.get = "response" /\ dl.StatusCode # StatusOK) =>
        /\ dl.err = "err"
        /\ dl.StatusCode \in Statuses
        /\ Local(dir, dl.filename) = dl.before
        /\ dl.output = "nil"

\* C19 (as stated): whenever downloadFile returns no error after a GET, the file
\* at localFilePath has as modification time the Last-Modified of the GET
\* response when that header parses, and the time of the download otherwise.
C19_MtimeFromResponse ==
    (pc \in Sites /\ dl.get = "response" /\ dl.err = "nil") =>
        LET f == Local(dir, dl.filename) IN
        /\ exists(f)
        /\ f.mtime = IF dl.header = NoLM THEN Now ELSE dl.header

\* C20 (as stated): whenever downloadFile returns status 200 and no error, the
\* file at localFilePath exists and holds the complete body of the GET response,
\* also when os.Rename could not move the temporary file.
C20_Status200FileComplete ==
    (pc \in Sites /\ dl.StatusCode = StatusOK /\ dl.err = "nil") =>
        Local(dir, dl.filename).data = "body"

====
